---- MODULE Spec2Model ----
(***************************************************************************)
(* Crawl-job lifecycle engine of verifySource: the crawl_jobs / articles   *)
(* store, CrawlJobProcessor (process_jobs.py), VerifySourceCrawler          *)
(* (crawler.py), the Scrapy item pipelines (pipelines.py) and the gates of *)
(* the extractor (extractors/newspaper_extractor.py).                      *)
(***************************************************************************)
EXTENDS Integers, Sequences, FiniteSets, TLC

VARIABLES
    jobs,       \* table crawl_jobs: sequence of rows, the id of a row is its index
    articles,   \* table articles: sequence of rows, the id of a row is its index
    now,        \* the clock read by datetime.utcnow() and NOW()
    store_up,   \* whether the MySQL server answers; every statement raises when not
    proc,       \* the CrawlJobProcessor process: position and locals
    seen,       \* DeduplicationPipeline.seen_hashes / seen_urls of the running spider
    call,       \* the last store-gateway call made directly: name, arguments, result
    hist        \* per job: the statuses written, and whether an attempt went well

vars == <<jobs, articles, now, store_up, proc, seen, call, hist>>

----------------------------------------------------------------------------
(* Bounds of the model *)

\* the clock stops advancing at MaxClock
MaxClock == 1
\* rows of crawl_jobs in the tables get_pending_jobs is called on
MaxFetchJobs == 2
\* the largest limit get_pending_jobs is called with
MaxLimit == 2
\* jobs that exist before a sitemap is crawled
MaxExistingJobs == 2
\* characters of the longest body a content hash is taken of
MaxBodyLen == 4
\* parameters of the longest query string a URL is normalized with
MaxQueryLen == 2
\* rows of crawl_jobs that discovery creates
MaxCreatedJobs == 2

(* Program constants *)

\* run_processor: get_pending_jobs(limit=10)
BatchLimit == 10
\* _save_discovered_url: priority of a discovered job
DiscoveredPriority == -1
\* _save_discovered_url: max_retries of a discovered job
DiscoveredMaxRetries == 3
\* ContentValidator / _process_article: minimum body length
MinContentLength == 100
\* ContentValidator: title length band
MinTitleLength == 10
MaxTitleLength == 500
\* ContentValidator: spam indicators that reject
SpamThreshold == 3
\* _clean_title: titles of at most this length are discarded
ShortTitleLength == 5

----------------------------------------------------------------------------
(* Values *)

\* SQL NULL / Python None for a timestamp, an id, a hash, a source id; a text (an
\* error message, a title, a body) is modelled by its length, 0 for none
NoTime == 0 - 1
NoId == 0
NoError == 0
NoHash == ""
NoSource == 0

\* an empty metadata bag (column NULL, '{}' or an empty dict)
EmptyMd == [k \in {} |-> ""]

\* dict with key k set to v
MdSet(md, k, v) == [x \in (DOMAIN md) \cup {k} |-> IF x = k THEN v ELSE md[x]]

Statuses == {"pending", "running", "completed", "failed"}

Min(a, b) == IF a < b THEN a ELSE b

----------------------------------------------------------------------------
(* URLs: scheme://netloc/path as one string, and the query as a sequence of
   name=value parameters *)

Url(path, query) == [path |-> path, query |-> query]

\* the paths whose lower-cased text contains "sitemap"
SitemapPaths == {"http://news.example/sitemap.xml"}

\* process_job: 'sitemap' in url.lower()
IsSitemapUrl(url) == url.path \in SitemapPaths

TrackingParams ==
    {"utm_source", "utm_medium", "utm_campaign", "utm_term", "utm_content", "fbclid", "gclid"}

RECURSIVE FilterParams(_)
FilterParams(q) ==
    IF q = <<>> THEN <<>>
    ELSE IF Head(q).name \in TrackingParams THEN FilterParams(Tail(q))
    ELSE <<Head(q)>> \o FilterParams(Tail(q))

\* NewspaperExtractor._normalize_url
NormalizeUrl(url) == Url(url.path, FilterParams(url.query))

----------------------------------------------------------------------------
(* Content hashes: a body is a sequence of characters, one string each *)

\* a lower-case letter, an upper-case letter, a whitespace and a punctuation
\* character
BodyChars == {"a", "B", " ", "."}

\* \s of the regular expressions
IsSpace(c) == c = " "

\* \w of the regular expressions
IsWordChar(c) == c \in {"a", "b", "B"}

\* str.lower
Lower(text) == [i \in 1..Len(text) |-> IF text[i] = "B" THEN "b" ELSE text[i]]

RECURSIVE LStrip(_)
LStrip(text) ==
    IF text # <<>> /\ IsSpace(Head(text)) THEN LStrip(Tail(text)) ELSE text

RECURSIVE RStrip(_)
RStrip(text) ==
    IF text # <<>> /\ IsSpace(text[Len(text)])
    THEN RStrip(SubSeq(text, 1, Len(text) - 1)) ELSE text

\* str.strip
Strip(text) == RStrip(LStrip(text))

\* re.sub(r'\s+', ' ', text)
RECURSIVE CollapseWhitespace(_)
CollapseWhitespace(text) ==
    IF text = <<>> THEN <<>>
    ELSE IF IsSpace(Head(text)) THEN <<" ">> \o CollapseWhitespace(LStrip(Tail(text)))
    ELSE <<Head(text)>> \o CollapseWhitespace(Tail(text))

\* the characters [^\w\s] matches
IsPunctuation(c) == ~IsWordChar(c) /\ ~IsSpace(c)

\* re.sub(r'[^\w\s]', '', text)
RemovePunctuation(text) == SelectSeq(text, LAMBDA c : ~IsPunctuation(c))

\* the return value None
NoDigest == [none |-> TRUE, text |-> <<>>]

\* hashlib.sha256(text.encode('utf-8')).hexdigest(): different texts have
\* different digests, so the digest is identified with the text hashed
Sha256(text) == [none |-> FALSE, text |-> text]

\* NewspaperExtractor._generate_content_hash
generate_content_hash(content) ==
    IF content = <<>> THEN NoDigest
    ELSE Sha256(RemovePunctuation(CollapseWhitespace(Strip(Lower(content)))))

----------------------------------------------------------------------------
(* Table crawl_jobs *)

NewJob(url, source_id, priority, max_retries, scheduled_at, created_at, metadata) ==
    [url |-> url, source_id |-> source_id, status |-> "pending", priority |-> priority,
     retry_count |-> 0, max_retries |-> max_retries, scheduled_at |-> scheduled_at,
     created_at |-> created_at, started_at |-> NoTime, completed_at |-> NoTime,
     error_message |-> NoError, metadata |-> metadata]

\* a row as the dictionary cursor returns it
Row(js, i) == [id |-> i, job |-> js[i]]

\* the WHERE clause with status IN ('pending', 'running')
Eligible_with_running(j, t) ==
    j.status \in {"pending", "running"} /\ (j.scheduled_at = NoTime \/ j.scheduled_at <= t)

\* the WHERE clause with scheduled_at IS NULL alone
Eligible_unscheduled(j, t) == j.status = "pending" /\ j.scheduled_at = NoTime

\* the WHERE clause without the test of scheduled_at
Eligible_any_time(j, t) == j.status = "pending"

\* WHERE cj.status = 'pending' AND (cj.scheduled_at IS NULL OR cj.scheduled_at <= NOW())
Eligible(j, t) == j.status = "pending" /\ (j.scheduled_at = NoTime \/ j.scheduled_at <= t)

\* COALESCE(cj.scheduled_at, cj.created_at)
Coalesce(j) == IF j.scheduled_at # NoTime THEN j.scheduled_at ELSE j.created_at

\* ORDER BY cj.priority DESC, COALESCE(cj.scheduled_at, cj.created_at) ASC: a sorts strictly before b
Before(a, b) ==
    \/ a.priority > b.priority
    \/ a.priority = b.priority /\ Coalesce(a) < Coalesce(b)

\* every order of the ids the ORDER BY allows (rows with equal keys come in any order)
RECURSIVE OrderBy(_, _)
OrderBy(js, ids) ==
    IF ids = {} THEN {<<>>}
    ELSE UNION {{<<i>> \o s : s \in OrderBy(js, ids \ {i})} :
                i \in {x \in ids : \A y \in ids : ~Before(js[y], js[x])}}

\* LIMIT n
Limit(s, n) == SubSeq(s, 1, Min(n, Len(s)))

\* CrawlJobProcessor.get_pending_jobs: the results the query can return at time t
get_pending_jobs(js, limit, t) ==
    {[k \in DOMAIN Limit(s, limit) |-> Row(js, Limit(s, limit)[k])] :
        s \in OrderBy(js, {i \in DOMAIN js : Eligible(js[i], t)})}

\* error_message[:1000]
ErrorLimit == 1000
Truncate(len) == Min(len, ErrorLimit)

\* the update that schedules a job set to pending one time unit later
update_job_status_backoff(js, job_id, status, error_message, metadata, t) ==
    IF job_id \notin DOMAIN js THEN js
    ELSE [js EXCEPT ![job_id] =
            [@ EXCEPT !.status = status,
                      !.scheduled_at = IF status = "pending" THEN t + 1 ELSE @,
                      !.started_at = IF status = "running" THEN t ELSE @,
                      !.completed_at = IF status \in {"completed", "failed"} THEN t ELSE @,
                      !.error_message = IF error_message # NoError
                                        THEN Truncate(error_message) ELSE @,
                      !.metadata = IF DOMAIN metadata # {} THEN metadata ELSE @]]

\* the update with completed_at set for 'completed' alone
update_job_status_completed_only(js, job_id, status, error_message, metadata, t) ==
    IF job_id \notin DOMAIN js THEN js
    ELSE [js EXCEPT ![job_id] =
            [@ EXCEPT !.status = status,
                      !.started_at = IF status = "running" THEN t ELSE @,
                      !.completed_at = IF status = "completed" THEN t ELSE @,
                      !.error_message = IF error_message # NoError
                                        THEN Truncate(error_message) ELSE @,
                      !.metadata = IF DOMAIN metadata # {} THEN metadata ELSE @]]

\* CrawlJobProcessor.update_job_status
update_job_status(js, job_id, status, error_message, metadata, t) ==
    IF job_id \notin DOMAIN js THEN js
    ELSE [js EXCEPT ![job_id] =
            [@ EXCEPT !.status = status,
                      !.started_at = IF status = "running" THEN t ELSE @,
                      !.completed_at = IF status \in {"completed", "failed"} THEN t ELSE @,
                      !.error_message = IF error_message # NoError
                                        THEN Truncate(error_message) ELSE @,
                      !.metadata = IF DOMAIN metadata # {} THEN metadata ELSE @]]

\* CrawlJobProcessor.increment_retry_count
increment_retry_count(js, job_id) ==
    IF job_id \notin DOMAIN js THEN js
    ELSE [js EXCEPT ![job_id].retry_count = @ + 1]

\* DatabasePipeline._update_crawl_job_success
update_crawl_job_success(js, crawl_job_id, article_id, t) ==
    IF crawl_job_id \notin DOMAIN js THEN js
    ELSE [js EXCEPT ![crawl_job_id] =
            [@ EXCEPT !.status = "completed",
                      !.completed_at = t,
                      !.metadata = MdSet(@, "article_id", article_id)]]

\* the spider yielding an article record for each listed URL
DiscoveredItem_as_article(url, source_id, sitemap_url, t) ==
    [url |-> url, source_id |-> source_id, found_in_sitemap |-> FALSE,
     sitemap_url |-> sitemap_url, discovered_at |-> t,
     title |-> 12, content |-> 600, spam_count |-> 0, content_hash |-> NoHash,
     crawl_job_id |-> NoId]

\* an item SitemapSpider.parse yields
DiscoveredItem(url, source_id, sitemap_url, t) ==
    [url |-> url, source_id |-> source_id, found_in_sitemap |-> TRUE,
     sitemap_url |-> sitemap_url, discovered_at |-> t,
     title |-> 0, content |-> 0, spam_count |-> 0, content_hash |-> NoHash,
     crawl_job_id |-> NoId]

\* the metadata _save_discovered_url stores
DiscoveredMetadata(item) ==
    [k \in {"discovered_from_sitemap", "sitemap_url", "discovered_at"} |->
        IF k = "discovered_from_sitemap" THEN TRUE
        ELSE IF k = "sitemap_url" THEN item.sitemap_url
        ELSE item.discovered_at]

\* the lookup with status = 'pending' in place of status IN ('pending', 'running')
save_discovered_url_pending_only(js, item, t) ==
    IF item.source_id = NoSource \/ item.url.path = "" THEN js
    ELSE IF \E i \in DOMAIN js : js[i].url = item.url /\ js[i].status = "pending"
    THEN js
    ELSE Append(js, NewJob(item.url, item.source_id, DiscoveredPriority, DiscoveredMaxRetries,
                           t, t, DiscoveredMetadata(item)))

\* DatabasePipeline._save_discovered_url
save_discovered_url(js, item, t) ==
    IF item.source_id = NoSource \/ item.url.path = "" THEN js
    ELSE IF \E i \in DOMAIN js : js[i].url = item.url /\ js[i].status \in {"pending", "running"}
    THEN js
    ELSE Append(js, NewJob(item.url, item.source_id, DiscoveredPriority, DiscoveredMaxRetries,
                           t, t, DiscoveredMetadata(item)))

----------------------------------------------------------------------------
(* The extractor's gates. A raw article is what newspaper3k parsed: text and
   title are the lengths of article.text.strip() and of the title after the
   substitutions of _clean_title, clean is the length of the body after
   _clean_content, spam the number of spam phrases in it, hash the digest of
   the normalized text. *)

RawArticle(text, title, clean, spam, hash) ==
    [text |-> text, title |-> title, clean |-> clean, spam |-> spam, hash |-> hash]

NoResult == [none |-> TRUE]

\* NewspaperExtractor._clean_title: return title if len(title) > 5 else None
clean_title(title) == IF title > ShortTitleLength THEN title ELSE 0

\* NewspaperExtractor._process_article, as its callers extract_from_url and
\* extract_from_response see it: None for a short text, and None when the log
\* line extracted_data['title'][:50] raises TypeError on a title of None
process_article(article, url) ==
    IF article.text < MinContentLength \/ clean_title(article.title) = 0 THEN NoResult
    ELSE [url |-> NormalizeUrl(url), title |-> clean_title(article.title),
          content |-> article.clean, spam_count |-> article.spam,
          content_hash |-> article.hash, found_in_sitemap |-> FALSE,
          source_id |-> NoSource, crawl_job_id |-> NoId]

\* article_data.update({'source_id': ..., 'crawl_job_id': ...})
WithJob(item, source_id, crawl_job_id) ==
    [item EXCEPT !.source_id = source_id, !.crawl_job_id = crawl_job_id]

\* the score with the word count counted whether or not there is a content
calculate_quality_metrics_flat(data) ==
    Min((IF data.title # 0 /\ 10 <= data.title /\ data.title <= 200 THEN 20 ELSE 0)
        + (IF data.content >= 500 THEN 25 ELSE IF data.content >= 200 THEN 15 ELSE 0)
        + (IF data.word_count >= 100 THEN 10 ELSE 0)
        + (IF data.authors THEN 15 ELSE 0)
        + (IF data.published_at THEN 10 ELSE 0)
        + (IF data.meta_description THEN 5 ELSE 0)
        + (IF data.keywords THEN 5 ELSE 0)
        + (IF data.top_image THEN 5 ELSE 0)
        + (IF data.summary THEN 5 ELSE 0), 100)

\* NewspaperExtractor._calculate_quality_metrics: the quality_score; title and
\* content by their length, word_count the number of words of the raw text, the
\* other fields by their presence
calculate_quality_metrics(data) ==
    LET title_score ==
            IF data.title # 0 /\ 10 <= data.title /\ data.title <= 200 THEN 20 ELSE 0
        content_score ==
            IF data.content # 0
            THEN (IF data.content >= 500 THEN 25
                  ELSE IF data.content >= 200 THEN 15 ELSE 0)
                 + (IF data.word_count >= 100 THEN 10 ELSE 0)
            ELSE 0
        quality_score ==
            title_score + content_score
            + (IF data.authors THEN 15 ELSE 0)
            + (IF data.published_at THEN 10 ELSE 0)
            + (IF data.meta_description THEN 5 ELSE 0)
            + (IF data.keywords THEN 5 ELSE 0)
            + (IF data.top_image THEN 5 ELSE 0)
            + (IF data.summary THEN 5 ELSE 0)
    IN  Min(quality_score, 100)

\* the gate with the title band of the quality score
is_valid_article_title_band(data) ==
    /\ data.title # 0 /\ data.content # 0
    /\ ~(data.content < MinContentLength)
    /\ ~(data.title < MinTitleLength \/ data.title > 200)
    /\ ~(data.spam_count >= SpamThreshold)

\* ContentValidator.is_valid_article
is_valid_article(data) ==
    /\ data.title # 0 /\ data.content # 0
    /\ ~(data.content < MinContentLength)
    /\ ~(data.title < MinTitleLength \/ data.title > MaxTitleLength)
    /\ ~(data.spam_count >= SpamThreshold)

----------------------------------------------------------------------------
(* Table articles *)

ArticleRow(item) ==
    [url |-> item.url, content_hash |-> item.content_hash, source_id |-> item.source_id,
     title |-> item.title, content |-> item.content, spam_count |-> item.spam_count]

\* the query with the test of the content_hash alone
Existing_hash_only(arts, item) ==
    {i \in DOMAIN arts :
        item.content_hash # NoHash /\ arts[i].content_hash = item.content_hash}

\* the query with the test of the URL alone
Existing_url_only(arts, item) == {i \in DOMAIN arts : arts[i].url = item.url}

\* SELECT id FROM articles WHERE url = %s OR content_hash = %s
\* (a comparison with NULL is never true)
Existing(arts, item) ==
    {i \in DOMAIN arts :
        \/ arts[i].url = item.url
        \/ item.content_hash # NoHash /\ arts[i].content_hash = item.content_hash}

\* the save without the lookup of an existing row
save_article_always_inserts(arts, item) ==
    {[articles |-> Append(arts, ArticleRow(item)), id |-> Len(arts) + 1]}

\* CrawlJobProcessor._save_article: the outcomes, each the table after the call
\* and the id returned (fetchone returns any one of the matching rows)
save_article(arts, item) ==
    IF Existing(arts, item) # {}
    THEN {[articles |-> arts, id |-> i] : i \in Existing(arts, item)}
    ELSE {[articles |-> Append(arts, ArticleRow(item)), id |-> Len(arts) + 1]}

\* DatabasePipeline._save_article: the store after the call; inserted is the id
\* of the new row, NoId when none was inserted
pipeline_save_article(js, arts, item, t) ==
    IF item.source_id = NoSource \/ Existing(arts, item) # {}
    THEN [jobs |-> js, articles |-> arts, inserted |-> NoId]
    ELSE [jobs |-> IF item.crawl_job_id # NoId
                   THEN update_crawl_job_success(js, item.crawl_job_id, Len(arts) + 1, t)
                   ELSE js,
          articles |-> Append(arts, ArticleRow(item)),
          inserted |-> Len(arts) + 1]

----------------------------------------------------------------------------
(* The Scrapy item pipeline: ITEM_PIPELINES runs ValidationPipeline (300), then
   DeduplicationPipeline (400), then DatabasePipeline (500) on every item *)

NoSeen == [hashes |-> {}, urls |-> {}]

\* the stage that passes every item on
validation_passes_any(item) == TRUE

\* ValidationPipeline.process_item: TRUE when the item is passed on
validation_passes(item) == is_valid_article(item)

\* the stage with the test of the URL alone
dedup_passes_url_only(sn, item) == item.url \notin sn.urls

\* DeduplicationPipeline.process_item: TRUE when the item is passed on
dedup_passes(sn, item) ==
    /\ ~(item.content_hash # NoHash /\ item.content_hash \in sn.hashes)
    /\ item.url \notin sn.urls

\* DeduplicationPipeline.process_item: the seen sets after an item was passed on
dedup_add(sn, item) ==
    [hashes |-> IF item.content_hash # NoHash THEN sn.hashes \cup {item.content_hash}
                ELSE sn.hashes,
     urls |-> IF item.url.path # "" THEN sn.urls \cup {item.url} ELSE sn.urls]

\* DatabasePipeline.process_item
database_process_item(js, arts, item, t) ==
    IF item.found_in_sitemap
    THEN [jobs |-> save_discovered_url(js, item, t), articles |-> arts, inserted |-> NoId]
    ELSE pipeline_save_article(js, arts, item, t)

\* an item through the three pipelines: the store and the seen sets afterwards,
\* stage the last pipeline that saw the item
item_pipeline(js, arts, sn, item, t) ==
    IF ~validation_passes(item)
    THEN [jobs |-> js, articles |-> arts, seen |-> sn, inserted |-> NoId,
          stage |-> "validation"]
    ELSE IF ~dedup_passes(sn, item)
    THEN [jobs |-> js, articles |-> arts, seen |-> sn, inserted |-> NoId,
          stage |-> "dedup"]
    ELSE [jobs |-> database_process_item(js, arts, item, t).jobs,
          articles |-> database_process_item(js, arts, item, t).articles,
          seen |-> dedup_add(sn, item),
          inserted |-> database_process_item(js, arts, item, t).inserted,
          stage |-> "database"]

----------------------------------------------------------------------------
(* What the outside world supplies *)

PageA == Url("http://news.example/a", <<>>)
PageATracked == Url("http://news.example/a", <<[name |-> "utm_source", value |-> "x"]>>)
PageB == Url("http://news.example/b", <<>>)
SitemapUrl == Url("http://news.example/sitemap.xml", <<>>)

\* what a fetch of a page can parse to: a good article, one with too little
\* text, one with a title of 7 characters, one with three spam phrases, one
\* with a title of 4 characters
RawArticles ==
    {RawArticle(600, 12, 600, 0, "h1"),
     RawArticle(50, 12, 50, 0, "h2"),
     RawArticle(600, 7, 600, 0, "h3"),
     RawArticle(600, 12, 600, 3, "h4"),
     RawArticle(600, 4, 600, 0, "h5")}

\* max_jobs of a run: 0 stands for None (no limit)
RunLimits == {0, 1, 2}

\* str(e) of a store error, by its length
ErrorTexts == {40}

\* the URLs a sitemap lists
SitemapListing == <<PageA, PageB, Url("http://news.example/c", <<>>),
                    Url("http://news.example/d", <<>>), Url("http://news.example/e", <<>>)>>

\* the listing restricted to the positions in S, in order
RECURSIVE Pick(_, _)
Pick(seq, S) ==
    IF seq = <<>> THEN <<>>
    ELSE (IF Len(seq) \in S THEN Pick(SubSeq(seq, 1, Len(seq) - 1), S) \o <<seq[Len(seq)]>>
          ELSE Pick(SubSeq(seq, 1, Len(seq) - 1), S))

\* a spider run: the items it yields go through the pipelines one after the other
RECURSIVE run_spider(_, _, _, _, _)
run_spider(js, arts, sn, items, t) ==
    IF items = <<>> THEN [jobs |-> js, articles |-> arts, seen |-> sn]
    ELSE run_spider(item_pipeline(js, arts, sn, Head(items), t).jobs,
                    item_pipeline(js, arts, sn, Head(items), t).articles,
                    item_pipeline(js, arts, sn, Head(items), t).seen,
                    Tail(items), t)

----------------------------------------------------------------------------
(* CrawlJobProcessor: run_processor and process_job *)

NoJob == [id |-> NoId]

Idle(continuous, max_jobs) ==
    [pc |-> "start", continuous |-> continuous, max_jobs |-> max_jobs,
     processed_count |-> 0, batch |-> <<>>, idx |-> 1, job |-> NoJob,
     result |-> NoResult, result_metadata |-> EmptyMd, error_msg |-> NoError,
     save_failed |-> FALSE, fallback |-> "none"]

\* the process leaves run_processor: finally disconnect_database, then main exits
Exit(p, code) ==
    [p EXCEPT !.pc = IF code = 0 THEN "exit0" ELSE "exit1",
              !.batch = <<>>, !.idx = 1, !.job = NoJob, !.result = NoResult,
              !.result_metadata = EmptyMd, !.error_msg = NoError,
              !.save_failed = FALSE, !.fallback = "none"]

\* process_job returned: processed_count += 1 and the loop goes to the next job
Returned(p) ==
    [p EXCEPT !.pc = "loop", !.processed_count = @ + 1, !.idx = @ + 1, !.job = NoJob,
              !.result = NoResult, !.result_metadata = EmptyMd, !.error_msg = NoError,
              !.save_failed = FALSE, !.fallback = "none"]

\* hist after the statuses of the jobs changed from js to js2 by one write to job id
Logged(h, id, js2) == [h EXCEPT ![id].statuses = Append(@, js2[id].status)]

\* processor p moves to state st
Goto(p, st) == proc' = [proc EXCEPT ![p] = st]

\* run_processor: connect_database
Connect(p) ==
    /\ proc[p].pc = "start"
    /\ Goto(p, IF store_up THEN [proc[p] EXCEPT !.pc = "poll"] ELSE Exit(proc[p], 1))
    /\ UNCHANGED <<jobs, articles, now, store_up, seen, call, hist>>

\* the poll that sleeps and polls again when the query raises
Poll_retrying(p) ==
    /\ proc[p].pc = "poll"
    /\ IF ~store_up THEN Goto(p, proc[p])
       ELSE \E b \in get_pending_jobs(jobs, BatchLimit, now) :
              Goto(p, IF b # <<>> THEN [proc[p] EXCEPT !.pc = "loop", !.batch = b, !.idx = 1]
                      ELSE IF proc[p].continuous THEN proc[p]
                      ELSE Exit(proc[p], 0))
    /\ UNCHANGED <<jobs, articles, now, store_up, seen, call, hist>>

\* run_processor: pending_jobs = self.get_pending_jobs(limit=10)
Poll(p) ==
    /\ proc[p].pc = "poll"
    /\ IF ~store_up THEN Goto(p, Exit(proc[p], 1))
       ELSE \E b \in get_pending_jobs(jobs, BatchLimit, now) :
              Goto(p, IF b # <<>> THEN [proc[p] EXCEPT !.pc = "loop", !.batch = b, !.idx = 1]
                      ELSE IF proc[p].continuous THEN proc[p]
                      ELSE Exit(proc[p], 0))
    /\ UNCHANGED <<jobs, articles, now, store_up, seen, call, hist>>

\* the loop that fetches again after the batch in either mode
EndBatch_refetch(p) ==
    /\ proc[p].pc = "loop"
    /\ proc[p].idx > Len(proc[p].batch)
    /\ Goto(p, [proc[p] EXCEPT !.pc = "poll", !.batch = <<>>, !.idx = 1])
    /\ UNCHANGED <<jobs, articles, now, store_up, seen, call, hist>>

\* run_processor: the for loop is over
EndBatch(p) ==
    /\ proc[p].pc = "loop"
    /\ proc[p].idx > Len(proc[p].batch)
    /\ Goto(p, IF proc[p].continuous
               THEN [proc[p] EXCEPT !.pc = "poll", !.batch = <<>>, !.idx = 1]
               ELSE Exit(proc[p], 0))
    /\ UNCHANGED <<jobs, articles, now, store_up, seen, call, hist>>

\* run_processor: if max_jobs and processed_count >= max_jobs: return
MaxJobsReached(p) ==
    /\ proc[p].pc = "loop"
    /\ proc[p].idx <= Len(proc[p].batch)
    /\ proc[p].max_jobs # 0 /\ proc[p].processed_count >= proc[p].max_jobs
    /\ Goto(p, Exit(proc[p], 0))
    /\ UNCHANGED <<jobs, articles, now, store_up, seen, call, hist>>

\* the claim that skips a job whose stored status is no longer pending
Claim_if_pending(p) ==
    /\ proc[p].pc = "loop"
    /\ proc[p].idx <= Len(proc[p].batch)
    /\ ~(proc[p].max_jobs # 0 /\ proc[p].processed_count >= proc[p].max_jobs)
    /\ LET job == proc[p].batch[proc[p].idx] IN
         IF jobs[job.id].status # "pending"
         THEN /\ Goto(p, [proc[p] EXCEPT !.idx = @ + 1])
              /\ UNCHANGED <<jobs, hist>>
         ELSE /\ jobs' = update_job_status(jobs, job.id, "running", NoError, EmptyMd, now)
              /\ Goto(p, [proc[p] EXCEPT !.pc = "crawl", !.job = job])
              /\ hist' = Logged(hist, job.id, jobs')
    /\ UNCHANGED <<articles, now, store_up, seen, call>>

\* process_job: self.update_job_status(job_id, 'running')
Claim(p) ==
    /\ proc[p].pc = "loop"
    /\ proc[p].idx <= Len(proc[p].batch)
    /\ ~(proc[p].max_jobs # 0 /\ proc[p].processed_count >= proc[p].max_jobs)
    /\ LET job == proc[p].batch[proc[p].idx] IN
         IF store_up
         THEN /\ jobs' = update_job_status(jobs, job.id, "running", NoError, EmptyMd, now)
              /\ Goto(p, [proc[p] EXCEPT !.pc = "crawl", !.job = job])
              /\ hist' = Logged(hist, job.id, jobs')
         ELSE /\ \E e \in ErrorTexts :
                    Goto(p, [proc[p] EXCEPT !.pc = "handler", !.job = job, !.error_msg = e])
              /\ UNCHANGED <<jobs, hist>>
    /\ UNCHANGED <<articles, now, store_up, seen, call>>

\* the metadata process_job builds after crawl_url returned result
ResultMetadata(result) ==
    [k \in {"crawl_type", "extraction_successful", "title", "content_length"} |->
        IF k = "crawl_type" THEN "single_url"
        ELSE IF k = "extraction_successful" THEN result # NoResult
        ELSE IF k = "title" THEN (IF result # NoResult THEN result.title ELSE 0)
        ELSE (IF result # NoResult THEN result.content ELSE 0)]

\* process_job: crawl_url, newspaper3k extracted a record
CrawlUrl(p) ==
    /\ proc[p].pc = "crawl"
    /\ ~IsSitemapUrl(proc[p].job.job.url)
    /\ \E raw \in RawArticles :
         LET job == proc[p].job
             data == process_article(raw, job.job.url)
             result == WithJob(data, job.job.source_id, job.id)
         IN /\ data # NoResult
            /\ Goto(p, [proc[p] EXCEPT !.pc = "save", !.result = result,
                                       !.result_metadata = ResultMetadata(result)])
    /\ UNCHANGED <<jobs, articles, now, store_up, seen, call, hist>>

\* process_job: crawl_url, extract_from_url returned None (it raised, timed out
\* or the text was too short) and crawl_url fell back to SinglePageSpider; the
\* crawl raises, or yields nothing, or yields an item to the item pipeline.
\* crawl_url returns None in each case.
CrawlUrlFallback(p) ==
    /\ proc[p].pc = "crawl"
    /\ ~IsSitemapUrl(proc[p].job.job.url)
    /\ LET job == proc[p].job IN
       \/ /\ \E outcome \in {"raised", "no_item"} :
                Goto(p, [proc[p] EXCEPT !.pc = "complete", !.fallback = outcome,
                                        !.result_metadata = ResultMetadata(NoResult)])
          /\ UNCHANGED <<jobs, articles, hist>>
       \/ \E raw \in RawArticles :
            LET data == process_article(raw, job.job.url)
                item == WithJob(data, job.job.source_id, job.id)
                out == item_pipeline(jobs, articles, NoSeen, item, now)
            IN /\ data # NoResult
               /\ IF store_up
                  THEN /\ jobs' = out.jobs
                       /\ articles' = out.articles
                       /\ hist' = IF out.inserted # NoId THEN Logged(hist, job.id, jobs')
                                  ELSE hist
                  ELSE UNCHANGED <<jobs, articles, hist>>
               /\ Goto(p, [proc[p] EXCEPT
                             !.pc = "complete",
                             !.fallback = IF store_up /\ out.inserted # NoId THEN "saved"
                                          ELSE "dropped",
                             !.result_metadata = ResultMetadata(NoResult)])
    /\ UNCHANGED <<now, store_up, seen, call>>

\* process_job: crawl_sitemap; the spider raises, or yields the listed URLs to
\* the item pipeline
CrawlSitemap(p) ==
    /\ proc[p].pc = "crawl"
    /\ IsSitemapUrl(proc[p].job.job.url)
    /\ LET job == proc[p].job IN
       \E S \in SUBSET (DOMAIN SitemapListing) :
         LET urls == Pick(SitemapListing, S)
             items == [k \in DOMAIN urls |->
                         DiscoveredItem(urls[k], job.job.source_id, job.job.url, now)]
             out == run_spider(jobs, articles, NoSeen, items, now)
         IN /\ IF store_up
               THEN jobs' = out.jobs /\ articles' = out.articles
               ELSE UNCHANGED <<jobs, articles>>
            /\ hist' = [i \in DOMAIN jobs' |->
                          IF i \in DOMAIN hist THEN hist[i]
                          ELSE [statuses |-> <<jobs'[i].status>>, succeeded |-> FALSE]]
    /\ Goto(p, [proc[p] EXCEPT !.pc = "complete",
                               !.result_metadata = [k \in {"crawl_type"} |-> "sitemap"]])
    /\ UNCHANGED <<now, store_up, seen, call>>

\* _save_article, first statement: SELECT id FROM articles WHERE url = %s OR
\* content_hash = %s; a row found is returned, none found leads to the INSERT
SaveSelect(p) ==
    /\ proc[p].pc = "save"
    /\ IF Existing(articles, proc[p].result) # {}
       THEN \E i \in Existing(articles, proc[p].result) :
              Goto(p, [proc[p] EXCEPT !.pc = "complete",
                                      !.result_metadata = MdSet(@, "article_id", i)])
       ELSE Goto(p, [proc[p] EXCEPT !.pc = "insert"])
    /\ UNCHANGED <<jobs, articles, now, store_up, seen, call, hist>>

\* _save_article, second statement: INSERT INTO articles, commit, lastrowid
SaveInsert(p) ==
    /\ proc[p].pc = "insert"
    /\ articles' = Append(articles, ArticleRow(proc[p].result))
    /\ Goto(p, [proc[p] EXCEPT !.pc = "complete",
                               !.result_metadata = MdSet(@, "article_id", Len(articles) + 1)])
    /\ UNCHANGED <<jobs, now, store_up, seen, call, hist>>

\* process_job: article_id = self._save_article(result), inside its own try
Save(p) ==
    /\ proc[p].pc = "save"
    /\ IF store_up
       THEN \E out \in save_article(articles, proc[p].result) :
              /\ articles' = out.articles
              /\ Goto(p, [proc[p] EXCEPT !.pc = "complete",
                            !.result_metadata = MdSet(@, "article_id", out.id)])
       ELSE /\ Goto(p, [proc[p] EXCEPT !.pc = "complete", !.save_failed = TRUE])
            /\ UNCHANGED articles
    /\ UNCHANGED <<jobs, now, store_up, seen, call, hist>>

\* how the attempt that reaches "Mark job as completed" went
Outcome(p) ==
    IF p.save_failed THEN "save_failed"
    ELSE IF ~IsSitemapUrl(p.job.job.url) /\ p.result = NoResult /\ p.fallback # "saved"
    THEN "extraction_failed"
    ELSE "ok"

\* process_job: self.update_job_status(job_id, 'completed', metadata=result_metadata)
Complete(p) ==
    /\ proc[p].pc = "complete"
    /\ LET job == proc[p].job IN
         IF store_up
         THEN /\ jobs' = update_job_status(jobs, job.id, "completed", NoError,
                                           proc[p].result_metadata, now)
              /\ hist' = [Logged(hist, job.id, jobs') EXCEPT
                            ![job.id].succeeded = @ \/ Outcome(proc[p]) = "ok"]
              /\ Goto(p, Returned(proc[p]))
         ELSE /\ \E e \in ErrorTexts :
                    Goto(p, [proc[p] EXCEPT !.pc = "handler", !.error_msg = e])
              /\ UNCHANGED <<jobs, hist>>
    /\ UNCHANGED <<articles, now, store_up, seen, call>>

\* process_job, except Exception: self.increment_retry_count(job_id)
HandlerIncrement(p) ==
    /\ proc[p].pc = "handler"
    /\ IF store_up
       THEN /\ jobs' = increment_retry_count(jobs, proc[p].job.id)
            /\ Goto(p, [proc[p] EXCEPT !.pc = "decide"])
       ELSE /\ Goto(p, Exit(proc[p], 1))
            /\ UNCHANGED jobs
    /\ UNCHANGED <<articles, now, store_up, seen, call, hist>>

\* the handler leaving the job in status running
retry_status_running(row) == "running"

\* the comparison written with <= in place of <
retry_status_le(row) ==
    IF row.job.retry_count + 1 <= row.job.max_retries THEN "pending" ELSE "failed"

\* process_job, except Exception: the status the job fetched as row goes to
retry_status(row) ==
    IF row.job.retry_count + 1 < row.job.max_retries THEN "pending" ELSE "failed"

\* process_job, except Exception: update_job_status(job_id, 'pending' or 'failed', error_message=error_msg)
HandlerDecide(p) ==
    /\ proc[p].pc = "decide"
    /\ LET job == proc[p].job IN
         IF store_up
         THEN /\ jobs' = update_job_status(jobs, job.id, retry_status(job),
                                           proc[p].error_msg, EmptyMd, now)
              /\ hist' = Logged(hist, job.id, jobs')
              /\ Goto(p, Returned(proc[p]))
         ELSE /\ Goto(p, Exit(proc[p], 1))
              /\ UNCHANGED <<jobs, hist>>
    /\ UNCHANGED <<articles, now, store_up, seen, call>>

----------------------------------------------------------------------------
(* The environment *)

Tick ==
    /\ now < MaxClock
    /\ now' = now + 1
    /\ UNCHANGED <<jobs, articles, store_up, proc, seen, call, hist>>

StoreDown ==
    /\ store_up
    /\ store_up' = FALSE
    /\ UNCHANGED <<jobs, articles, now, proc, seen, call, hist>>

StoreUp ==
    /\ ~store_up
    /\ store_up' = TRUE
    /\ UNCHANGED <<jobs, articles, now, proc, seen, call, hist>>

----------------------------------------------------------------------------
(* Spec: one processor on a store holding two enqueued jobs *)

Origin == [k \in {"origin"} |-> "laravel"]

\* the jobs an external enqueue created
EnqueuedFirst ==
    {NewJob(u, 1, 0, mr, NoTime, 0, md) :
        u \in {PageA, SitemapUrl}, mr \in {0, 1, 3}, md \in {Origin}}
EnqueuedSecond ==
    {NewJob(PageATracked, 1, pr, 1, sch, 0, EmptyMd) : pr \in {0, 1}, sch \in {NoTime, 1}}

NoCall == [op |-> "none"]

Init ==
    /\ jobs \in {<<a, b>> : a \in EnqueuedFirst, b \in EnqueuedSecond}
    /\ articles = <<>>
    /\ now = 0
    /\ store_up = TRUE
    /\ proc \in {[p \in {1} |-> Idle(c, m)] : c \in BOOLEAN, m \in RunLimits}
    /\ seen = NoSeen
    /\ call = NoCall
    /\ hist = [i \in DOMAIN jobs |-> [statuses |-> <<jobs[i].status>>, succeeded |-> FALSE]]

Processor(p) ==
    \/ Connect(p) \/ Poll(p) \/ EndBatch(p) \/ MaxJobsReached(p) \/ Claim(p)
    \/ CrawlUrl(p) \/ CrawlUrlFallback(p) \/ CrawlSitemap(p) \/ Save(p) \/ Complete(p)
    \/ HandlerIncrement(p) \/ HandlerDecide(p)

Next == Processor(1) \/ StoreDown \/ StoreUp

Spec == Init /\ [][Next]_vars

----------------------------------------------------------------------------
(* Properties of the processor, under Spec *)

\* the step in which processor p ends its attempt in the failure handler
HandlerEnds(p) == proc[p].pc = "decide" /\ proc'[p].pc = "loop"

\* the step in which processor p ends its attempt at "Mark job as completed"
CompletedEnds(p) == proc[p].pc = "complete" /\ proc'[p].pc = "loop"

\* C1: an attempt that ends in the failure handler on a job fetched with
\* retry_count r and max_retries m leaves the job pending with retry_count r + 1
\* when r + 1 < m, and failed (never pending) when r + 1 >= m.
C1_RetryRule ==
    [][\A p \in DOMAIN proc :
         HandlerEnds(p) =>
           LET id == proc[p].job.id
               r == proc[p].job.job.retry_count
               m == proc[p].job.job.max_retries
           IN /\ (r + 1 < m) => (jobs'[id].status = "pending" /\ jobs'[id].retry_count = r + 1)
              /\ (r + 1 >= m) => jobs'[id].status = "failed"]_vars

\* both branches were taken: a job fetched with 0 of 3 went back to pending with
\* retry_count 1, and a job fetched with 0 of 1 went to failed
C1_Witness ==
    /\ \E i \in DOMAIN jobs :
         jobs[i].max_retries = 3 /\ jobs[i].status = "pending" /\ jobs[i].retry_count = 1
    /\ \E i \in DOMAIN jobs :
         jobs[i].max_retries = 1 /\ jobs[i].status = "failed" /\ jobs[i].retry_count = 1

IsPrefix(s, t) == Len(s) <= Len(t) /\ SubSeq(t, 1, Len(s)) = s

FailingSequence ==
    <<"pending", "running", "pending", "running", "pending", "running", "failed">>

\* the jobs no processor is working on
AtRest(i) == \A p \in DOMAIN proc : proc[p].job.id # i

\* C2: a job created pending with retry_count 0 and max_retries 3 whose every
\* attempt fails goes through pending, running, pending, running, pending,
\* running, failed, with retry_count 1, 2, 3 after the failures.
C2_FailingSequence ==
    \A i \in DOMAIN jobs :
        (jobs[i].max_retries = 3 /\ ~hist[i].succeeded /\ AtRest(i)) =>
            /\ IsPrefix(hist[i].statuses, FailingSequence)
            /\ jobs[i].retry_count = (Len(hist[i].statuses) - 1) \div 2

\* C3: when the extractor fails for a single-URL job, process_job increments
\* retry_count and moves the job to pending or failed, not to completed.
C3_ExtractionFailureRetries ==
    [][\A p \in DOMAIN proc :
         (CompletedEnds(p) /\ Outcome(proc[p]) = "extraction_failed") =>
            LET id == proc[p].job.id
            IN /\ jobs'[id].status \in {"pending", "failed"}
               /\ jobs'[id].retry_count = jobs[id].retry_count + 1]_vars

\* C4: when saving the extracted article raises, the job is not moved to
\* completed: retry_count is incremented and the job goes to pending or failed.
C4_SaveFailureRetries ==
    [][\A p \in DOMAIN proc :
         (CompletedEnds(p) /\ proc[p].save_failed) =>
            LET id == proc[p].job.id
            IN /\ jobs'[id].status \in {"pending", "failed"}
               /\ jobs'[id].retry_count = jobs[id].retry_count + 1]_vars

\* C6: a record that fails the validity gate never reaches _save_article, so
\* no row of articles fails the gate.
C6_OnlyValidSaved ==
    /\ \A p \in DOMAIN proc : proc[p].pc = "save" => is_valid_article(proc[p].result)
    /\ \A i \in DOMAIN articles : is_valid_article(articles[i])

\* C10: update_job_status called with a metadata patch keeps every key of the
\* job's metadata that is not in the patch, with its value.
C10_MetadataMerged ==
    [][\A p \in DOMAIN proc :
         CompletedEnds(p) =>
            LET id == proc[p].job.id
            IN \A k \in (DOMAIN jobs[id].metadata) \ (DOMAIN proc[p].result_metadata) :
                  /\ k \in DOMAIN jobs'[id].metadata
                  /\ jobs'[id].metadata[k] = jobs[id].metadata[k]]_vars

----------------------------------------------------------------------------
(* SpecFetch: get_pending_jobs called with any limit on any small table *)

Seqs(S, n) == UNION {[1..k -> S] : k \in 0..n}

\* pending jobs of either priority, scheduled at no time, at 0 or at 1, and
\* created at 0 or 1; and jobs in the other statuses that would sort first
FetchJobs ==
    {NewJob(PageA, 1, pr, 3, sch, cr, EmptyMd) :
        pr \in {0, 1}, sch \in {NoTime, 0, 1}, cr \in {0, 1}} \cup
    {[NewJob(PageA, 1, 1, 3, NoTime, 0, EmptyMd) EXCEPT !.status = st] :
        st \in Statuses \ {"pending"}}

InitFetch ==
    /\ jobs \in Seqs(FetchJobs, MaxFetchJobs)
    /\ articles = <<>>
    /\ now = 0
    /\ store_up = TRUE
    /\ proc = <<>>
    /\ seen = NoSeen
    /\ call = NoCall
    /\ hist = <<>>

\* a caller runs get_pending_jobs(limit)
FetchCall ==
    /\ \E limit \in 0..MaxLimit :
       \E rows \in get_pending_jobs(jobs, limit, now) :
          call' = [op |-> "get_pending_jobs", limit |-> limit, now |-> now, result |-> rows]
    /\ UNCHANGED <<jobs, articles, now, store_up, proc, seen, hist>>

NextFetch == FetchCall \/ Tick

SpecFetch == InitFetch /\ [][NextFetch]_vars

----------------------------------------------------------------------------
(* SpecSave: one connection saving records one after the other, through
   CrawlJobProcessor._save_article and DatabasePipeline._save_article *)

PageC == Url("http://news.example/c", <<>>)

\* the records saved: three URLs, two digests or none
SaveItems ==
    {[url |-> u, title |-> 12, content |-> 600, spam_count |-> 0, content_hash |-> h,
      found_in_sitemap |-> FALSE, source_id |-> 1, crawl_job_id |-> NoId] :
        u \in {PageA, PageB, PageC}, h \in {"h1", "h2", NoHash}}

InitSave ==
    /\ jobs = <<>>
    /\ articles = <<>>
    /\ now = 0
    /\ store_up = TRUE
    /\ proc = <<>>
    /\ seen = NoSeen
    /\ call = NoCall
    /\ hist = <<>>

\* CrawlJobProcessor._save_article(item)
SaveArticleCall ==
    /\ \E item \in SaveItems :
       \E out \in save_article(articles, item) :
          /\ articles' = out.articles
          /\ call' = [op |-> "save_article", item |-> item, id |-> out.id,
                      before |-> Len(articles)]
    /\ UNCHANGED <<jobs, now, store_up, proc, seen, hist>>

\* DatabasePipeline._save_article(item), for an item with or without source_id
PipelineSaveCall ==
    /\ \E item \in SaveItems, src \in {NoSource, 1} :
         LET out == pipeline_save_article(jobs, articles, [item EXCEPT !.source_id = src], now)
         IN /\ articles' = out.articles
            /\ jobs' = out.jobs
            /\ call' = [op |-> "pipeline_save_article",
                        item |-> [item EXCEPT !.source_id = src],
                        id |-> out.inserted, before |-> Len(articles)]
    /\ UNCHANGED <<now, store_up, proc, seen, hist>>

NextSave == SaveArticleCall \/ PipelineSaveCall

SpecSave == InitSave /\ [][NextSave]_vars

\* the rows of arts that have the URL of item, or its digest when it has one
SameUrlOrHash(arts, item) ==
    {i \in DOMAIN arts :
        \/ arts[i].url = item.url
        \/ (item.content_hash # NoHash /\ arts[i].content_hash = item.content_hash)}

\* C5: with one processor saving sequentially, a record whose URL or
\* content_hash equals that of a stored Article inserts no row and
\* _save_article returns the id of an existing row; no two Article rows share
\* a URL and no two share a non-null content_hash.
C5_SaveIdempotent ==
    /\ call.op \in {"save_article", "pipeline_save_article"} =>
         LET pre == SubSeq(articles, 1, call.before)
             dup == SameUrlOrHash(pre, call.item)
         IN /\ dup # {} => articles = pre
            /\ (dup # {} /\ call.op = "save_article") => call.id \in dup
            /\ (dup = {} /\ call.op = "save_article") =>
                  /\ Len(articles) = call.before + 1
                  /\ call.id = Len(articles)
                  /\ articles[call.id].url = call.item.url
                  /\ articles[call.id].content_hash = call.item.content_hash
    /\ \A i, j \in DOMAIN articles :
         i # j => /\ articles[i].url # articles[j].url
                  /\ (articles[i].content_hash # NoHash =>
                        articles[i].content_hash # articles[j].content_hash)

\* a record with a new URL and the digest of a stored row was saved: no row
\* was added and the id of that row came back
C5_Witness ==
    /\ call.op = "save_article"
    /\ call.before = Len(articles)
    /\ call.id \in DOMAIN articles
    /\ articles[call.id].url # call.item.url
    /\ articles[call.id].content_hash = call.item.content_hash
    /\ \A i \in DOMAIN articles : articles[i].url # call.item.url

----------------------------------------------------------------------------
(* SpecDiscovery: a SitemapSpider run whose items go through the configured
   item pipeline, and direct calls of DatabasePipeline._save_discovered_url,
   on a store that already holds some jobs for the listed URLs *)

\* the jobs that exist before: at most MaxExistingJobs, for URLs among the
\* first three of the listing, in any status
ExistingTables ==
    UNION {[1..n -> {[NewJob(SitemapListing[k], 1, 0, 3, NoTime, 0, EmptyMd)
                        EXCEPT !.status = st] : k \in 1..3, st \in Statuses}] :
           n \in 0..MaxExistingJobs}

InitDiscovery ==
    /\ jobs \in {t \in ExistingTables :
                    \A i, j \in DOMAIN t : i # j => t[i].url # t[j].url}
    /\ articles = <<>>
    /\ now = 0
    /\ store_up = TRUE
    /\ proc = <<>>
    /\ seen = NoSeen
    /\ call = NoCall
    /\ hist = [initial |-> jobs, yielded |-> {}, direct |-> FALSE]

\* SitemapSpider.parse yields the k-th URL of the listing; Scrapy hands the
\* item to the pipelines of ITEM_PIPELINES
SpiderYields ==
    /\ \E k \in (DOMAIN SitemapListing) \ hist.yielded :
         LET item == DiscoveredItem(SitemapListing[k], 1, SitemapUrl, now)
             out == item_pipeline(jobs, articles, seen, item, now)
         IN /\ jobs' = out.jobs
            /\ articles' = out.articles
            /\ seen' = out.seen
            /\ hist' = [hist EXCEPT !.yielded = @ \cup {k}]
            /\ call' = [op |-> "item_pipeline", item |-> item, stage |-> out.stage,
                        before |-> Len(jobs)]
    /\ UNCHANGED <<now, store_up, proc>>

\* the items _save_discovered_url is called with: with and without a source
\* id, with and without a URL
DirectItems ==
    {DiscoveredItem(u, src, SitemapUrl, 0) :
        u \in {PageA, PageB, Url("", <<>>)}, src \in {NoSource, 1}}

\* DatabasePipeline._save_discovered_url(item), called directly
SaveDiscoveredCall(item) ==
    /\ jobs' = save_discovered_url(jobs, item, now)
    /\ hist' = [hist EXCEPT !.direct = TRUE]
    /\ call' = [op |-> "save_discovered_url", item |-> item, stage |-> "database",
                before |-> Len(jobs)]
    /\ UNCHANGED <<articles, now, store_up, proc, seen>>

NextDiscovery == SpiderYields \/ \E item \in DirectItems : SaveDiscoveredCall(item)

SpecDiscovery == InitDiscovery /\ [][NextDiscovery]_vars

\* the URLs of the listing that had a pending job before the crawl
HadPendingJob ==
    {k \in DOMAIN SitemapListing :
        \E i \in DOMAIN hist.initial :
            hist.initial[i].url = SitemapListing[k] /\ hist.initial[i].status = "pending"}

\* C7: a sitemap job that discovers 5 URLs of which 2 already have a pending
\* job creates exactly 3 new crawl_jobs rows through the configured pipeline.
C7_ThreeNewJobs ==
    (/\ hist.yielded = DOMAIN SitemapListing
     /\ ~hist.direct
     /\ Len(hist.initial) = 2
     /\ Cardinality(HadPendingJob) = 2)
    => Len(jobs) = Len(hist.initial) + 3

\* a job for the URL of item that is pending or running
ActiveJobFor(item) ==
    \E i \in DOMAIN jobs : jobs[i].url = item.url /\ jobs[i].status \in {"pending", "running"}

\* jobs' is jobs with one more row, the discovered job for item
OneDiscoveredJobAdded(item) ==
    /\ Len(jobs') = Len(jobs) + 1
    /\ SubSeq(jobs', 1, Len(jobs)) = jobs
    /\ LET j == jobs'[Len(jobs')]
       IN /\ j.url = item.url
          /\ j.status = "pending"
          /\ j.priority = -1 /\ j.priority < 0
          /\ j.retry_count = 0
          /\ j.max_retries = 3

\* C8 as stated: _save_discovered_url inserts nothing when a job with that URL
\* is pending or running, and otherwise inserts exactly one job with status
\* pending, priority -1, retry_count 0 and max_retries 3; two calls in
\* succession for one URL add at most one row.
C8_DiscoveredIdempotent_Original ==
    [][\A item \in DirectItems :
         SaveDiscoveredCall(item) =>
            /\ ActiveJobFor(item) => jobs' = jobs
            /\ ~ActiveJobFor(item) => OneDiscoveredJobAdded(item)
            /\ (call.op = "save_discovered_url" /\ call.item.url = item.url)
                   => Len(jobs') <= call.before + 1]_vars

\* C8 as amended: the same for an item that carries a source id and a URL; an
\* item without either inserts nothing.
C8_DiscoveredIdempotent ==
    [][\A item \in DirectItems :
         SaveDiscoveredCall(item) =>
            /\ ActiveJobFor(item) => jobs' = jobs
            /\ (item.source_id = NoSource \/ item.url.path = "") => jobs' = jobs
            /\ (~ActiveJobFor(item) /\ item.source_id # NoSource /\ item.url.path # "")
                   => OneDiscoveredJobAdded(item)
            /\ (call.op = "save_discovered_url" /\ call.item.url = item.url)
                   => Len(jobs') <= call.before + 1]_vars

\* a URL whose only job was completed was discovered and got a new pending
\* job, and the same URL was then discovered again without a new row
C8_Witness ==
    /\ call.op = "save_discovered_url"
    /\ call.before = Len(jobs)
    /\ call.item.source_id # NoSource
    /\ \E i, j \in DOMAIN jobs :
         /\ i < j
         /\ jobs[i].url = call.item.url /\ jobs[i].status = "completed"
         /\ jobs[j].url = call.item.url /\ jobs[j].status = "pending"
         /\ jobs[j].priority = DiscoveredPriority
         /\ j > Len(hist.initial)

----------------------------------------------------------------------------
(* SpecUpdate: the status writes of the store gateway, update_job_status and
   _update_crawl_job_success, called in any order on one job while the clock
   advances *)

InitUpdate ==
    /\ jobs = <<NewJob(PageA, 1, 0, 3, NoTime, 0, Origin)>>
    /\ articles = <<>>
    /\ now = 0
    /\ store_up = TRUE
    /\ proc = <<>>
    /\ seen = NoSeen
    /\ call = NoCall
    /\ hist = <<>>

\* update_job_status(job_id, status, error_message, metadata)
UpdateStatusCall ==
    /\ \E st \in Statuses, e \in {NoError} \cup ErrorTexts,
          md \in {EmptyMd, [k \in {"crawl_type"} |-> "sitemap"]} :
         /\ jobs' = update_job_status(jobs, 1, st, e, md, now)
         /\ call' = [op |-> "update_job_status", status |-> st, now |-> now,
                     before |-> jobs[1]]
    /\ UNCHANGED <<articles, now, store_up, proc, seen, hist>>

\* _update_crawl_job_success(crawl_job_id, article_id)
UpdateSuccessCall ==
    /\ jobs' = update_crawl_job_success(jobs, 1, 1, now)
    /\ call' = [op |-> "update_crawl_job_success", status |-> "completed", now |-> now,
                before |-> jobs[1]]
    /\ UNCHANGED <<articles, now, store_up, proc, seen, hist>>

NextUpdate == UpdateStatusCall \/ UpdateSuccessCall \/ Tick

SpecUpdate == InitUpdate /\ [][NextUpdate]_vars

\* C11: update_job_status sets started_at exactly when the new status is
\* running and completed_at exactly when it is completed or failed, and leaves
\* both unchanged on a transition to pending; so every completed or failed job
\* has completed_at set and every running job has started_at set.
C11_Timestamps ==
    /\ call.op = "update_job_status" =>
         /\ jobs[1].status = call.status
         /\ jobs[1].started_at =
               (IF call.status = "running" THEN call.now ELSE call.before.started_at)
         /\ jobs[1].completed_at =
               (IF call.status \in {"completed", "failed"} THEN call.now
                ELSE call.before.completed_at)
         /\ call.status = "pending" =>
               /\ jobs[1].started_at = call.before.started_at
               /\ jobs[1].completed_at = call.before.completed_at
    /\ \A i \in DOMAIN jobs :
         /\ jobs[i].status \in {"completed", "failed"} => jobs[i].completed_at # NoTime
         /\ jobs[i].status = "running" => jobs[i].started_at # NoTime

\* a job that ran at time 0 and failed at time 1 was put back to pending, and
\* kept both timestamps
C11_Witness ==
    /\ call.op = "update_job_status" /\ call.status = "pending"
    /\ call.before.status = "failed"
    /\ jobs[1].started_at = 0 /\ jobs[1].completed_at = 1

----------------------------------------------------------------------------
(* Properties of the job lifecycle, under Spec *)

\* processor p is between two process_job calls
BetweenJobs(p) == proc[p].pc \in {"start", "poll", "loop", "exit0", "exit1"}

\* C12: for every job created with retry_count <= max_retries (max_retries 0
\* included), whenever a process_job call has returned the stored retry_count
\* is at most max_retries.
C12_RetryBounded ==
    (\A p \in DOMAIN proc : BetweenJobs(p)) =>
        \A i \in DOMAIN jobs : jobs[i].retry_count <= jobs[i].max_retries

\* md2 has every key of md1, with the value it has in md1
OnlyGainsKeys(md1, md2) ==
    \A k \in DOMAIN md1 : k \in DOMAIN md2 /\ md2[k] = md1[k]

\* C13: once a job has been written completed or failed, no later step changes
\* its status, retry_count, error_message or completed_at, and its metadata
\* only gains keys.
C13_TerminalImmutable ==
    [][\A i \in DOMAIN jobs :
         jobs[i].status \in {"completed", "failed"} =>
            /\ jobs'[i].status = jobs[i].status
            /\ jobs'[i].retry_count = jobs[i].retry_count
            /\ jobs'[i].error_message = jobs[i].error_message
            /\ jobs'[i].completed_at = jobs[i].completed_at
            /\ OnlyGainsKeys(jobs[i].metadata, jobs'[i].metadata)]_vars

\* the status changes of the lifecycle
AllowedTransitions ==
    {<<"pending", "running">>, <<"running", "completed">>,
     <<"running", "pending">>, <<"running", "failed">>}

\* C14: the only status changes performed on a job are pending to running,
\* running to completed, running to pending and running to failed; completed
\* and failed are absorbing.
C14_Transitions ==
    [][\A i \in DOMAIN jobs :
         jobs'[i].status # jobs[i].status =>
            <<jobs[i].status, jobs'[i].status>> \in AllowedTransitions]_vars

\* the rows of articles that hold the record processor p got for its job: the
\* rows matching the extracted record, or on the fallback path the rows with
\* the job's normalized URL
ArticleOf(p) ==
    IF proc[p].result # NoResult THEN Existing(articles, proc[p].result)
    ELSE {i \in DOMAIN articles : articles[i].url = NormalizeUrl(proc[p].job.job.url)}

\* the attempt of processor p stored an Article or matched a stored one
ArticleStored(p) ==
    /\ ~IsSitemapUrl(proc[p].job.job.url)
    /\ \/ proc[p].result # NoResult /\ ~proc[p].save_failed
       \/ proc[p].fallback = "saved"

\* C15: when processing a single-URL job stored an Article or matched an
\* existing one, the completed job's metadata records the crawl type, the
\* extraction-success flag and that Article's id, on the direct path and on
\* the Scrapy fallback path.
C15_CompletionMetadata ==
    [][\A p \in DOMAIN proc :
         (CompletedEnds(p) /\ ArticleStored(p)) =>
            LET md == jobs'[proc[p].job.id].metadata
            IN /\ {"crawl_type", "extraction_successful", "article_id"} \subseteq DOMAIN md
               /\ md["crawl_type"] = "single_url"
               /\ md["extraction_successful"] = TRUE
               /\ md["article_id"] \in ArticleOf(p)]_vars

\* C16: when the store already holds an Article with the URL or the
\* content_hash of the record extracted for a job, saving it inserts no row
\* and process_job goes on to complete the job; the write that ends the
\* attempt moves the job to completed with its retry_count unchanged.
C16_DuplicateIsSuccess ==
    [][\A p \in DOMAIN proc :
         /\ (proc[p].pc = "save" /\ proc'[p].pc # "save" /\ store_up
             /\ Existing(articles, proc[p].result) # {}) =>
               /\ articles' = articles
               /\ jobs' = jobs
               /\ proc'[p].pc = "complete" /\ ~proc'[p].save_failed
               /\ proc'[p].result_metadata["article_id"] \in Existing(articles, proc[p].result)
         /\ (CompletedEnds(p) /\ proc[p].result # NoResult /\ ~proc[p].save_failed) =>
               /\ jobs'[proc[p].job.id].status = "completed"
               /\ jobs'[proc[p].job.id].retry_count = proc[p].job.job.retry_count
               /\ jobs'[proc[p].job.id].retry_count = jobs[proc[p].job.id].retry_count
               /\ articles' = articles]_vars

\* two jobs for the same page were both completed with the id of the one
\* Article row, and neither was charged a retry
C16_Witness ==
    /\ Len(articles) = 1
    /\ \A i \in {1, 2} :
         /\ jobs[i].status = "completed"
         /\ "article_id" \in DOMAIN jobs[i].metadata
         /\ jobs[i].metadata["article_id"] = 1
         /\ jobs[i].retry_count = 0
    /\ \A p \in DOMAIN proc : BetweenJobs(p)

\* processor p is working on a sitemap-shaped job
OnSitemapJob(p) == proc[p].job # NoJob /\ IsSitemapUrl(proc[p].job.job.url)

\* C17: processing a sitemap-shaped job never inserts an Article row: the
\* articles table is unchanged by every step of the attempt, and every row the
\* attempt adds to crawl_jobs is a discovered job.
C17_SitemapNoArticle ==
    [][\A p \in DOMAIN proc :
         OnSitemapJob(p) =>
            /\ articles' = articles
            /\ \A i \in (DOMAIN jobs') \ (DOMAIN jobs) :
                 /\ jobs'[i].status = "pending"
                 /\ jobs'[i].priority = DiscoveredPriority
                 /\ "discovered_from_sitemap" \in DOMAIN jobs'[i].metadata]_vars

\* the sitemap job was completed as a sitemap crawl while the table held the
\* Article of the other job, and holds that row alone
C17_Witness ==
    /\ \E i \in DOMAIN jobs :
         /\ IsSitemapUrl(jobs[i].url)
         /\ jobs[i].status = "completed"
         /\ "crawl_type" \in DOMAIN jobs[i].metadata
         /\ jobs[i].metadata["crawl_type"] = "sitemap"
         /\ hist[i].statuses = <<"pending", "running", "completed">>
    /\ Len(articles) = 1
    /\ \E i \in DOMAIN jobs :
         /\ ~IsSitemapUrl(jobs[i].url)
         /\ jobs[i].status = "completed"
         /\ jobs[i].completed_at # NoTime
         /\ hist[i].succeeded

\* C18: a job whose fetched record is rejected by the validity gate ends the
\* attempt in status failed, not pending and not completed.
C18_RejectedFails ==
    [][\A p \in DOMAIN proc :
         /\ (CompletedEnds(p) \/ HandlerEnds(p))
         /\ proc[p].result # NoResult
         /\ ~is_valid_article(proc[p].result)
         => jobs'[proc[p].job.id].status = "failed"]_vars

\* C19: an exception raised while extracting the record of a job, with the
\* store working, does not leave process_job: the job is moved to pending or
\* failed and run_processor goes on with the batch.
C19_ExtractionErrorContained ==
    [][\A p \in DOMAIN proc :
         /\ proc[p].pc = "complete"
         /\ proc[p].fallback = "raised"
         /\ store_up
         /\ proc'[p] # proc[p]
         => /\ proc'[p].pc = "loop"
            /\ jobs'[proc[p].job.id].status \in {"pending", "failed"}]_vars

\* the jobs in status running
Running == {i \in DOMAIN jobs : jobs[i].status = "running"}

\* the step in which processor p enters process_job for the next job of its batch
ClaimStep(p) == proc[p].pc = "loop" /\ proc'[p].pc \in {"crawl", "handler"}

\* C21: with a single processor at most one job is in status running at any
\* time, and a job is claimed only after the attempt on the previous job was
\* written as completed, pending or failed.
C21_OneRunning ==
    /\ [](Cardinality(Running) <= 1)
    /\ [][\A p \in DOMAIN proc :
            ClaimStep(p) =>
               /\ Running = {}
               /\ proc[p].idx > 1 =>
                     jobs[proc[p].batch[proc[p].idx - 1].id].status
                        \in {"completed", "pending", "failed"}]_vars

\* the second job of a batch is running after the first was written completed
C21_Witness ==
    /\ proc[1].pc = "crawl" /\ proc[1].idx = 2 /\ proc[1].processed_count = 1
    /\ jobs[proc[1].job.id].status = "running"
    /\ jobs[proc[1].batch[1].id].status = "completed"

----------------------------------------------------------------------------
(* SpecLive: Spec with the processor scheduled: the process keeps running
   its statements; nothing is assumed of the store *)

SpecLive == Init /\ [][Next]_vars /\ WF_vars(Processor(1))

\* processor p has left run_processor
Ended(p) == proc[p].pc \in {"exit0", "exit1"}

C22_MaxJobs ==
    /\ [](\A p \in DOMAIN proc :
            proc[p].max_jobs # 0 => proc[p].processed_count <= proc[p].max_jobs)
    /\ \A p \in {1} :
         []((/\ proc[p].max_jobs # 0
             /\ proc[p].processed_count >= proc[p].max_jobs
             /\ \A i \in DOMAIN jobs : jobs[i].status # "pending")
               => <>Ended(p))

----------------------------------------------------------------------------
(* SpecProgress: one processor in continuous mode without a job limit, on a
   store that works, with the clock advancing *)

InitProgress ==
    /\ jobs \in {<<a, b>> : a \in EnqueuedFirst, b \in EnqueuedSecond}
    /\ articles = <<>>
    /\ now = 0
    /\ store_up = TRUE
    /\ proc = [p \in {1} |-> Idle(TRUE, 0)]
    /\ seen = NoSeen
    /\ call = NoCall
    /\ hist = [i \in DOMAIN jobs |-> [statuses |-> <<jobs[i].status>>, succeeded |-> FALSE]]

\* the steps of run_processor and process_job that a working store allows
WorkingProcessor(p) ==
    \/ Connect(p) \/ Poll(p) \/ EndBatch(p) \/ Claim(p)
    \/ CrawlUrl(p) \/ CrawlUrlFallback(p) \/ CrawlSitemap(p) \/ Save(p) \/ Complete(p)

NextProgress == WorkingProcessor(1) \/ Tick

SpecProgress ==
    InitProgress /\ [][NextProgress]_vars /\ WF_vars(WorkingProcessor(1)) /\ WF_vars(Tick)

Terminal(i) == jobs[i].status \in {"completed", "failed"}

\* C23: in continuous mode with one processor, a finite set of jobs, a working
\* store and an extractor call that always returns or raises, every pending
\* job eventually reaches completed or failed, and no job that reached a
\* terminal status is processed a second time.
C23_Progress ==
    /\ \A i \in {1, 2} : (jobs[i].status = "pending") ~> Terminal(i)
    /\ \A i \in {1, 2} : <>[]Terminal(i)
    /\ [][\A p \in DOMAIN proc :
            ClaimStep(p) => jobs[proc[p].batch[proc[p].idx].id].status = "pending"]_vars
    /\ [](\A i \in DOMAIN jobs :
            Len(SelectSeq(hist[i].statuses, LAMBDA st : st = "running")) <= 1)

\* the job scheduled for time 1 was left out of the first poll and completed
\* after the clock reached 1
C23_Witness ==
    /\ now = 1
    /\ \A i \in DOMAIN jobs : jobs[i].status = "completed"
    /\ jobs[2].scheduled_at = 1 /\ jobs[2].started_at = 1
    /\ jobs[1].started_at = 0

----------------------------------------------------------------------------
(* SpecTwo: two processor instances on one working store, each statement of
   a processor a step of its own; _save_article runs as its two statements *)

InitTwo ==
    /\ jobs = <<NewJob(PageA, 1, 0, 3, NoTime, 0, EmptyMd),
                NewJob(PageATracked, 1, 0, 3, NoTime, 0, EmptyMd)>>
    /\ articles = <<>>
    /\ now = 0
    /\ store_up = TRUE
    /\ proc = [p \in {1, 2} |-> Idle(FALSE, 0)]
    /\ seen = NoSeen
    /\ call = NoCall
    /\ hist = [i \in DOMAIN jobs |-> [statuses |-> <<jobs[i].status>>, succeeded |-> FALSE]]

Concurrent(p) ==
    \/ Connect(p) \/ Poll(p) \/ EndBatch(p) \/ Claim(p)
    \/ CrawlUrl(p) \/ CrawlUrlFallback(p) \/ SaveSelect(p) \/ SaveInsert(p) \/ Complete(p)

NextTwo == Concurrent(1) \/ Concurrent(2)

SpecTwo == InitTwo /\ [][NextTwo]_vars

\* C24: with two processors polling one store, a state is reachable in which
\* both have fetched the same pending job before either set it to running,
\* and both run extraction for it: a processor takes every job of the batch
\* it fetched into extraction and writes it running, whatever the job's
\* stored status has become since the fetch.
C24_DoubleClaim ==
    [][\A p \in DOMAIN proc :
         (/\ proc[p].pc = "loop"
          /\ proc[p].idx <= Len(proc[p].batch)
          /\ proc'[p] # proc[p]) =>
            /\ proc'[p].pc = "crawl"
            /\ proc'[p].job = proc[p].batch[proc[p].idx]
            /\ proc[p].batch[proc[p].idx].job.status = "pending"
            /\ jobs'[proc'[p].job.id].status = "running"]_vars

\* both processors are extracting the same job, which each fetched as pending
\* and each wrote running
C24_Witness ==
    /\ proc[1].pc = "crawl" /\ proc[2].pc = "crawl"
    /\ proc[1].job.id = proc[2].job.id
    /\ proc[1].job.job.status = "pending" /\ proc[2].job.job.status = "pending"
    /\ hist[proc[1].job.id].statuses = <<"pending", "running", "running">>

\* the rows of articles with URL u
RowsWithUrl(u) == {i \in DOMAIN articles : articles[i].url = u}

\* C25: with two processors running _save_article for records with the same
\* URL, both selects can find no row and both inserts run, leaving two rows
\* with that URL; while only one processor has run, no two rows share a URL.
\* Each processor adds at most one row for a URL.
C25_SaveRace ==
    /\ (\E p \in DOMAIN proc : proc[p].pc = "start") =>
          \A i \in DOMAIN articles : RowsWithUrl(articles[i].url) = {i}
    /\ \A i \in DOMAIN articles :
          Cardinality(RowsWithUrl(articles[i].url)) <= Cardinality(DOMAIN proc)

\* both processors found no row for the URL and both are past their insert:
\* the table holds two rows with the URL
C25_Witness ==
    /\ Len(articles) = 2
    /\ articles[1].url = articles[2].url
    /\ \A p \in DOMAIN proc :
         /\ proc[p].pc = "complete"
         /\ "article_id" \in DOMAIN proc[p].result_metadata
         /\ proc[p].result_metadata["article_id"] = p

----------------------------------------------------------------------------
(* _generate_content_hash on its own: SpecHash takes the hashes of two bodies *)

Bodies == UNION {[1..n -> BodyChars] : n \in 0..MaxBodyLen}

\* the letters of a body, in order
Letters(text) == SelectSeq(text, IsWordChar)

\* two bodies with the same letters: they differ in whitespace and punctuation
\* at most
BodyPairs == {pair \in Bodies \X Bodies : Letters(pair[1]) = Letters(pair[2])}

InitHash ==
    /\ jobs = <<>>
    /\ articles = <<>>
    /\ now = 0
    /\ store_up = TRUE
    /\ proc = <<>>
    /\ seen = NoSeen
    /\ call \in {[op |-> "bodies", a |-> pair[1], b |-> pair[2]] : pair \in BodyPairs}
    /\ hist = <<>>

\* self._generate_content_hash(a), self._generate_content_hash(b)
HashCall ==
    /\ call.op = "bodies"
    /\ call' = [op |-> "hash", a |-> call.a, b |-> call.b,
                hash_a |-> generate_content_hash(call.a),
                hash_b |-> generate_content_hash(call.b)]
    /\ UNCHANGED <<jobs, articles, now, store_up, proc, seen, hist>>

NextHash == HashCall

SpecHash == InitHash /\ [][NextHash]_vars

\* the length of the first word of a text that starts with one
RECURSIVE WordLen(_)
WordLen(text) ==
    IF text = <<>> \/ IsSpace(Head(text)) THEN 0 ELSE 1 + WordLen(Tail(text))

\* str.split: the words of a text, the maximal runs without whitespace
RECURSIVE Words(_)
Words(text) ==
    IF text = <<>> THEN <<>>
    ELSE IF IsSpace(Head(text)) THEN Words(Tail(text))
    ELSE <<SubSeq(text, 1, WordLen(text))>>
         \o Words(SubSeq(text, WordLen(text) + 1, Len(text)))

\* two bodies that differ only in whitespace: the same words in the same order
OnlyWhitespaceDiffers(a, b) == Words(a) = Words(b)

\* two bodies that differ only in punctuation: the same text once the
\* punctuation characters are taken out
OnlyPunctuationDiffers(a, b) == RemovePunctuation(a) = RemovePunctuation(b)

\* C26: two bodies that differ only in whitespace, or only in punctuation
\* characters (wherever they stand: between spaces, at the end of the text),
\* have the same content hash. Stated for the bodies that have a letter.
C26_HashInvariant ==
    (/\ call.op = "hash"
     /\ Letters(call.a) # <<>>
     /\ OnlyWhitespaceDiffers(call.a, call.b) \/ OnlyPunctuationDiffers(call.a, call.b))
        => call.hash_a = call.hash_b

----------------------------------------------------------------------------
(* _normalize_url on its own: SpecUrl normalizes two URLs *)

\* parameter names: two of the utm_ family, one of them outside the list of
\* _normalize_url, a click id, and two parameters that carry content
QueryNames == {"utm_source", "utm_id", "fbclid", "id", "page"}

QueryParams == {[name |-> n, value |-> "1"] : n \in QueryNames}

Queries == UNION {[1..n -> QueryParams] : n \in 0..MaxQueryLen}

SampleUrls == {Url(PageA.path, q) : q \in Queries}

InitUrl ==
    /\ jobs = <<>>
    /\ articles = <<>>
    /\ now = 0
    /\ store_up = TRUE
    /\ proc = <<>>
    /\ seen = NoSeen
    /\ call \in {[op |-> "urls", a |-> a, b |-> b] : a \in SampleUrls, b \in SampleUrls}
    /\ hist = <<>>

\* self._normalize_url(a), self._normalize_url(b)
NormalizeCall ==
    /\ call.op = "urls"
    /\ call' = [op |-> "normalize", a |-> call.a, b |-> call.b,
                normalized_a |-> NormalizeUrl(call.a),
                normalized_b |-> NormalizeUrl(call.b)]
    /\ UNCHANGED <<jobs, articles, now, store_up, proc, seen, hist>>

NextUrl == NormalizeCall

SpecUrl == InitUrl /\ [][NextUrl]_vars

\* the tracking parameters: every name that starts with utm_, fbclid, gclid
IsTrackingName(n) ==
    n \in {"utm_source", "utm_medium", "utm_campaign", "utm_term", "utm_content",
           "utm_id", "fbclid", "gclid"}

CarriesContent(param) == ~IsTrackingName(param.name)

\* the query without its tracking parameters
Untracked(q) == SelectSeq(q, CarriesContent)

\* C27: two URLs that differ only in tracking query parameters (any utm_
\* parameter, fbclid, gclid) normalize to the same URL, and the normalized URL
\* has the scheme, host and path of the original and its remaining parameters
\* in their order.
C27_TrackingStripped ==
    call.op = "normalize" =>
        /\ (call.a.path = call.b.path /\ Untracked(call.a.query) = Untracked(call.b.query))
              => call.normalized_a = call.normalized_b
        /\ call.normalized_a = Url(call.a.path, Untracked(call.a.query))

----------------------------------------------------------------------------
(* _calculate_quality_metrics and is_valid_article on their own: SpecQuality
   scores and validates one record *)

\* the records: title and content by their length, on and around the limits of
\* the score and of the gate; a content of 0 with words is the text that
\* _clean_content empties
QualityRecords ==
    [title : {0, 9, 10, 12, 200, 201, 300, 500, 501},
     content : {0, 99, 100, 150, 199, 200, 499, 500, 600},
     word_count : {0, 99, 100, 120},
     spam_count : {0, 2, 3},
     authors : BOOLEAN, published_at : BOOLEAN, meta_description : BOOLEAN,
     keywords : BOOLEAN, top_image : BOOLEAN, summary : BOOLEAN]

InitQuality ==
    /\ jobs = <<>>
    /\ articles = <<>>
    /\ now = 0
    /\ store_up = TRUE
    /\ proc = <<>>
    /\ seen = NoSeen
    /\ call \in {[op |-> "record", data |-> d] : d \in QualityRecords}
    /\ hist = <<>>

\* self._calculate_quality_metrics(data), ContentValidator.is_valid_article(data)
QualityCall ==
    /\ call.op = "record"
    /\ call' = [op |-> "quality", data |-> call.data,
                quality_score |-> calculate_quality_metrics(call.data),
                valid |-> is_valid_article(call.data)]
    /\ UNCHANGED <<jobs, articles, now, store_up, proc, seen, hist>>

NextQuality == QualityCall

SpecQuality == InitQuality /\ [][NextQuality]_vars

\* the sum of the points a record earns, signal by signal; words the points
\* for the word count
SignalSum(d, words) ==
      (IF 10 <= d.title /\ d.title <= 200 THEN 20 ELSE 0)
    + (IF d.content >= 500 THEN 25 ELSE IF d.content >= 200 THEN 15 ELSE 0)
    + words
    + (IF d.authors THEN 15 ELSE 0)
    + (IF d.published_at THEN 10 ELSE 0)
    + (IF d.meta_description THEN 5 ELSE 0)
    + (IF d.keywords THEN 5 ELSE 0)
    + (IF d.top_image THEN 5 ELSE 0)
    + (IF d.summary THEN 5 ELSE 0)

\* title of 12 characters, body of 600, 120 words, an author, nothing else
ScenarioRecord(d) ==
    /\ d.title = 12 /\ d.content = 600 /\ d.word_count = 120 /\ d.authors
    /\ ~d.published_at /\ ~d.meta_description /\ ~d.keywords /\ ~d.top_image
    /\ ~d.summary

\* C28, as stated: the quality score of every record is the sum of 20 for a
\* title of 10 to 200 characters, 25 for a body of 500 characters or more or
\* else 15 for one of 200 or more, 10 for 100 words or more, 15 for authors, 10
\* for a published date, 5 each for meta description, keywords, top image and
\* summary; it lies within 0..100; the record with a title of 12, a body of
\* 600, 120 words and an author scores 70.
C28_QualityScore_Original ==
    call.op = "quality" =>
        /\ call.quality_score =
              SignalSum(call.data, IF call.data.word_count >= 100 THEN 10 ELSE 0)
        /\ call.quality_score \in 0..100
        /\ ScenarioRecord(call.data) => call.quality_score = 70

\* C28: the quality score of every record is the sum as stated, with the 10
\* for 100 words or more given only to a record that has a body; it lies
\* within 0..100; the record with a title of 12, a body of 600, 120 words and
\* an author scores 70.
C28_QualityScore ==
    call.op = "quality" =>
        /\ call.quality_score =
              SignalSum(call.data,
                        IF call.data.content # 0 /\ call.data.word_count >= 100
                        THEN 10 ELSE 0)
        /\ call.quality_score \in 0..100
        /\ ScenarioRecord(call.data) => call.quality_score = 70

\* the record of the scenario was scored 70 and found valid
C28_Witness ==
    /\ call.op = "quality"
    /\ ScenarioRecord(call.data)
    /\ call.quality_score = 70
    /\ call.valid

\* C29: is_valid_article accepts a record exactly when title and body are
\* present, the body has 100 characters or more, the title 10 to 500 and fewer
\* than 3 spam phrases occur; the quality score has no part in the verdict, and
\* a record that scores 0 can be valid.
C29_ValidityGate ==
    call.op = "quality" =>
        call.valid = (/\ call.data.title # 0 /\ call.data.content # 0
                      /\ call.data.content >= 100
                      /\ call.data.title >= 10 /\ call.data.title <= 500
                      /\ call.data.spam_count < 3)

\* the record with a title of 300 characters and a body of 150 scores 0 and is
\* valid
C29_Witness ==
    /\ call.op = "quality"
    /\ call.data.title = 300 /\ call.data.content = 150
    /\ call.quality_score = 0
    /\ call.valid

----------------------------------------------------------------------------
(* The item pipeline on its own: SpecDedup sends the items of one spider run
   through ValidationPipeline, DeduplicationPipeline and DatabasePipeline; hist
   is the sequence of the items DeduplicationPipeline passed on *)

\* the items the spider yields: three pages, two digests or none, a body long
\* enough or too short; and a URL found in a sitemap
DedupItems ==
    {[url |-> u, title |-> 12, content |-> c, spam_count |-> 0, content_hash |-> h,
      found_in_sitemap |-> FALSE, source_id |-> 1, crawl_job_id |-> NoId] :
        u \in {PageA, PageB, PageC}, h \in {"h1", "h2", NoHash}, c \in {600, 50}}
    \cup {DiscoveredItem(PageB, 1, SitemapUrl, 0)}

InitDedup ==
    /\ jobs = <<>>
    /\ articles = <<>>
    /\ now = 0
    /\ store_up = TRUE
    /\ proc = <<>>
    /\ seen = NoSeen
    /\ call = NoCall
    /\ hist = <<>>

\* the three process_item calls for one item
ProcessItem ==
    /\ \E item \in DedupItems :
         LET out == item_pipeline(jobs, articles, seen, item, now) IN
         /\ jobs' = out.jobs
         /\ articles' = out.articles
         /\ seen' = out.seen
         /\ call' = [op |-> "process_item", item |-> item, stage |-> out.stage]
         /\ hist' = IF out.stage = "database" THEN Append(hist, item) ELSE hist
    /\ UNCHANGED <<now, store_up, proc>>

NextDedup == ProcessItem

SpecDedup == InitDedup /\ [][NextDedup]_vars

\* item repeats the URL or the content_hash of an item passed on before
RepeatsPassed(passed, item) ==
    \E k \in DOMAIN passed :
        \/ passed[k].url = item.url
        \/ item.content_hash # NoHash /\ passed[k].content_hash = item.content_hash

\* C30: an item whose content_hash or URL equals that of an item passed on
\* earlier in the run is dropped before DatabasePipeline sees it, and the table
\* is left as it was; no two of the items passed on have the same URL, and no
\* two the same content_hash unless they have none.
C30_DedupDrops ==
    /\ [][(call'.op = "process_item" /\ RepeatsPassed(hist, call'.item)) =>
            /\ call'.stage \in {"validation", "dedup"}
            /\ hist' = hist
            /\ articles' = articles]_vars
    /\ [](\A i, k \in DOMAIN hist :
            i # k => /\ hist[i].url # hist[k].url
                     /\ hist[i].content_hash # NoHash =>
                           hist[i].content_hash # hist[k].content_hash)

\* an item with a new URL and the content_hash of an item passed on before was
\* dropped by DeduplicationPipeline, after two items had been passed on
C30_Witness ==
    /\ call.op = "process_item"
    /\ call.stage = "dedup"
    /\ Len(hist) = 2
    /\ \A k \in DOMAIN hist : hist[k].url # call.item.url
    /\ \E k \in DOMAIN hist : hist[k].content_hash = call.item.content_hash

\* C31: in the item pipeline an item that is_valid_article rejects stops in
\* ValidationPipeline: the seen sets, crawl_jobs and articles are left as they
\* were; every item that DeduplicationPipeline or DatabasePipeline saw is valid.
C31_InvalidStopped ==
    /\ [][(call'.op = "process_item" /\ ~is_valid_article(call'.item)) =>
            /\ call'.stage = "validation"
            /\ seen' = seen
            /\ jobs' = jobs
            /\ articles' = articles
            /\ hist' = hist]_vars
    /\ []((call.op = "process_item" /\ call.stage \in {"dedup", "database"})
            => is_valid_article(call.item))

\* after an item was passed on and stored, an item with a body of 50
\* characters and a URL not seen before was stopped in ValidationPipeline
C31_Witness ==
    /\ call.op = "process_item"
    /\ call.stage = "validation"
    /\ call.item.content = 50
    /\ Len(hist) = 1 /\ Len(articles) = 1
    /\ call.item.url \notin seen.urls

----------------------------------------------------------------------------
(* SpecPriority: one processor on a store holding a single-URL job of
   priority 1 and a sitemap job of priority 0, three attempts allowed for
   each *)

InitPriority ==
    /\ jobs = <<NewJob(PageA, 1, 1, 3, NoTime, 0, EmptyMd),
                NewJob(SitemapUrl, 1, 0, 3, NoTime, 0, EmptyMd)>>
    /\ articles = <<>>
    /\ now = 0
    /\ store_up = TRUE
    /\ proc \in {[p \in {1} |-> Idle(c, m)] : c \in BOOLEAN, m \in RunLimits}
    /\ seen = NoSeen
    /\ call = NoCall
    /\ hist = [i \in DOMAIN jobs |-> [statuses |-> <<jobs[i].status>>, succeeded |-> FALSE]]

SpecPriority == InitPriority /\ [][Next]_vars

\* C32: a single processor never sets a job to running while another job that
\* is pending and eligible at that moment has a strictly higher priority, a
\* job returned to pending earlier in the same batch included.
C32_PriorityOrder ==
    [][\A p \in DOMAIN proc :
         (proc[p].pc = "loop" /\ proc'[p].pc = "crawl") =>
            \A j \in DOMAIN jobs :
               Eligible(jobs[j], now) => jobs[j].priority <= proc'[p].job.job.priority]_vars

----------------------------------------------------------------------------
(* Further properties of the processor, under Spec *)

\* C34: a sitemap job that was processed successfully is completed with
\* metadata that records the crawl type sitemap and, in a second entry, the
\* number of URLs the job discovered.
C34_SitemapMetadata ==
    \A i \in DOMAIN jobs :
        (IsSitemapUrl(jobs[i].url) /\ jobs[i].status = "completed") =>
            /\ "crawl_type" \in DOMAIN jobs[i].metadata
            /\ jobs[i].metadata["crawl_type"] = "sitemap"
            /\ Cardinality(DOMAIN jobs[i].metadata) >= 2

\* C37: returning the job of a failed attempt to pending changes its
\* retry_count (by one), its status and its error_message and nothing else of
\* the row (priority, scheduled_at, started_at, max_retries, metadata), and no
\* other row; the job is eligible for the next fetch at once.
C37_RetryFrame ==
    [][\A p \in DOMAIN proc :
         LET id == proc[p].job.id IN
         /\ (proc[p].pc = "handler" /\ proc'[p].pc = "decide") =>
               jobs' = [jobs EXCEPT ![id].retry_count = @ + 1]
         /\ (HandlerEnds(p) /\ jobs'[id].status = "pending") =>
               /\ jobs' = [jobs EXCEPT ![id].status = "pending",
                                       ![id].error_message = jobs'[id].error_message]
               /\ Eligible(jobs'[id], now')]_vars

\* a job went from running back to pending with retry_count 1 and an error
\* message, and is eligible
C37_Witness ==
    \E i \in DOMAIN jobs :
        /\ hist[i].statuses = <<"pending", "running", "pending">>
        /\ jobs[i].retry_count = 1
        /\ jobs[i].error_message # NoError
        /\ jobs[i].started_at # NoTime
        /\ Eligible(jobs[i], now)

----------------------------------------------------------------------------
(* Further properties of two processors, under SpecTwo *)

\* C38: with two processors on one store, a job that one of them wrote as
\* completed or failed is not moved to another status by the other, and its
\* retry_count stays as it was.
C38_TerminalKept ==
    [][\A i \in DOMAIN jobs :
         jobs[i].status \in {"completed", "failed"} =>
            /\ jobs'[i].status = jobs[i].status
            /\ jobs'[i].retry_count = jobs[i].retry_count]_vars

----------------------------------------------------------------------------
(* Further properties of termination, under SpecLive *)

\* C40: in non-continuous mode run_processor fetches once and ends: it enters
\* the poll from the start only, processes at most the jobs of the fetched
\* batch, which are at most 10, and at most max_jobs of them when max_jobs is
\* set, and enters process_job only for a job that it has not attempted in the
\* run, so a job returned to pending is left for a later run.
C40_SingleFetch ==
    /\ [](~proc[1].continuous => <>Ended(1))
    /\ [][\A p \in DOMAIN proc :
            ~proc[p].continuous =>
               /\ (proc'[p].pc = "poll" /\ proc[p].pc # "poll") => proc[p].pc = "start"
               /\ ClaimStep(p) =>
                     Len(hist[proc[p].batch[proc[p].idx].id].statuses) = 1]_vars
    /\ [](\A p \in DOMAIN proc :
            ~proc[p].continuous =>
               /\ Len(proc[p].batch) <= BatchLimit
               /\ proc[p].processed_count <= BatchLimit
               /\ ~Ended(p) /\ proc[p].pc # "start" /\ proc[p].pc # "poll"
                     => proc[p].processed_count <= Len(proc[p].batch)
               /\ proc[p].max_jobs # 0 => proc[p].processed_count <= proc[p].max_jobs)

\* a non-continuous run without job limit ended with exit code 0 after an
\* attempt that returned its job to pending: the job is still pending
C40_Witness ==
    /\ ~proc[1].continuous /\ proc[1].max_jobs = 0
    /\ proc[1].pc = "exit0"
    /\ proc[1].processed_count = 2
    /\ \E i \in DOMAIN jobs :
         /\ jobs[i].status = "pending" /\ jobs[i].retry_count = 1
         /\ Eligible(jobs[i], now)

----------------------------------------------------------------------------
(* StandaloneURLExtractor.extract_url on its own: SpecExtract extracts one
   page. A page is what the network and the parser do for the URL: how
   urlopen ends, how the second urlopen of the DNS fallback ends, the length
   of the text of the document, and whether the parsing raises an exception.
   The text of an exception is modelled by the set of the marker substrings
   it contains. *)

Markers == {"getaddrinfo failed", "timeout", "403", "404"}

Pages ==
    [fetch : {"ok", "dns", "timeout", "http_403", "http_404", "refused"},
     fallback : {"ok", "gaierror", "refused"},
     text : {0, 50, 150, 600},
     raised : BOOLEAN,
     message : SUBSET Markers]

NoContent == 0

\* StandaloneURLExtractor._fetch_url_with_fallback: the content, None when the
\* manual resolution or the second request fails
fetch_url_with_fallback(page) ==
    IF page.fallback = "ok" THEN page.text + 1 ELSE NoContent

\* StandaloneURLExtractor._fetch_url: the content by its length (the text and
\* at least one character of markup), None (0) on
\* every URLError, HTTPError and other exception
fetch_url(page) ==
    IF page.fetch = "ok" THEN page.text + 1
    ELSE IF page.fetch = "dns" THEN fetch_url_with_fallback(page)
    ELSE NoContent

\* extract_url, except Exception: the error text for an exception whose text
\* contains the markers msg
explain(msg) ==
    IF "getaddrinfo failed" \in msg THEN "DNS resolution failed"
    ELSE IF "timeout" \in msg THEN "Request timeout"
    ELSE IF "403" \in msg THEN "Access forbidden"
    ELSE IF "404" \in msg THEN "Page not found"
    ELSE "str(e)"

\* the record extract_url returns from its except branch
FailureRecord(error) ==
    [title |-> 0, content |-> 0, error |-> error,
     extraction_method |-> "standalone_parser_failed"]

\* StandaloneURLExtractor.extract_url
extract_url(page) ==
    IF fetch_url(page) = NoContent THEN NoResult
    ELSE IF page.raised THEN FailureRecord(explain(page.message))
    ELSE IF page.text < MinContentLength THEN NoResult
    ELSE [title |-> 12, content |-> page.text, error |-> "",
          extraction_method |-> "standalone_parser"]

InitExtract ==
    /\ jobs = <<>>
    /\ articles = <<>>
    /\ now = 0
    /\ store_up = TRUE
    /\ proc = <<>>
    /\ seen = NoSeen
    /\ call \in {[op |-> "page", page |-> pg] : pg \in Pages}
    /\ hist = <<>>

\* extractor.extract_url(url)
ExtractUrlCall ==
    /\ call.op = "page"
    /\ call' = [op |-> "extract_url", page |-> call.page, result |-> extract_url(call.page)]
    /\ UNCHANGED <<jobs, articles, now, store_up, proc, seen, hist>>

NextExtract == ExtractUrlCall

SpecExtract == InitExtract /\ [][NextExtract]_vars

\* the fetch of the page fails, with the DNS fallback when it is tried
FetchFails(page) ==
    \/ page.fetch \in {"timeout", "http_403", "http_404"}
    \/ page.fetch = "dns" /\ page.fallback # "ok"

\* the operator-readable explanation for the way the fetch of the page fails
Explanation(page) ==
    IF page.fetch = "dns" THEN "DNS resolution failed"
    ELSE IF page.fetch = "timeout" THEN "Request timeout"
    ELSE IF page.fetch = "http_403" THEN "Access forbidden"
    ELSE "Page not found"

\* C35: when the fetch fails with a DNS failure, a timeout, an HTTP 403 or an
\* HTTP 404, extract_url returns a failure record whose error text is the
\* explanation for that category.
C35_FetchFailureExplained ==
    (call.op = "extract_url" /\ FetchFails(call.page)) =>
        /\ call.result # NoResult
        /\ call.result = FailureRecord(Explanation(call.page))

----------------------------------------------------------------------------
(* SpecInterrupt: Spec with an interrupt (SIGINT) that raises
   KeyboardInterrupt at the statement run_processor is at *)

\* the interrupt handled as process_job handles an Exception
Interrupt_caught(p) ==
    /\ proc[p].pc \in {"crawl", "save", "complete"}
    /\ call.op # "interrupt"
    /\ \E e \in ErrorTexts : Goto(p, [proc[p] EXCEPT !.pc = "handler", !.error_msg = e])
    /\ call' = [op |-> "interrupt", job |-> proc[p].job.id, before |-> jobs]
    /\ UNCHANGED <<jobs, articles, now, store_up, seen, hist>>

\* KeyboardInterrupt is no Exception: it passes the except clauses of
\* process_job and crawl_url, run_processor's finally closes the connection,
\* main logs it and the process ends. call keeps the job in flight and the
\* table as the interrupt found them.
Interrupt(p) ==
    /\ ~Ended(p)
    /\ call.op # "interrupt"
    /\ Goto(p, Exit(proc[p], 0))
    /\ call' = [op |-> "interrupt", job |-> proc[p].job.id, before |-> jobs]
    /\ UNCHANGED <<jobs, articles, now, store_up, seen, hist>>

NextInterrupt == Next \/ Interrupt(1)

SpecInterrupt == Init /\ [][NextInterrupt]_vars

----------------------------------------------------------------------------
(* SpecRestart: a working store whose jobs are all created by
   _save_discovered_url, and process_jobs.py started again after each run; a
   run crashes at any point *)

InitRestart ==
    /\ jobs = <<>>
    /\ articles = <<>>
    /\ now = 0
    /\ store_up = TRUE
    /\ proc \in {[p \in {1} |-> Idle(c, 0)] : c \in BOOLEAN}
    /\ seen = NoSeen
    /\ call = NoCall
    /\ hist = <<>>

\* DatabasePipeline._save_discovered_url for URL u, on its own connection
Discover(u) ==
    /\ store_up
    /\ Len(jobs) < MaxCreatedJobs
    /\ jobs' = save_discovered_url(jobs, DiscoveredItem(u, 1, SitemapUrl, now), now)
    /\ hist' = [i \in DOMAIN jobs' |->
                  IF i \in DOMAIN hist THEN hist[i]
                  ELSE [statuses |-> <<jobs'[i].status>>, succeeded |-> FALSE]]
    /\ UNCHANGED <<articles, now, store_up, proc, seen, call>>

\* process_jobs.py is started again in the mode of the run that ended
Restart(p) ==
    /\ Ended(p)
    /\ Goto(p, Idle(proc[p].continuous, proc[p].max_jobs))
    /\ UNCHANGED <<jobs, articles, now, store_up, seen, call, hist>>

\* the process is killed, or interrupted, at the statement it is at: no
\* further statement of it runs
Crash(p) ==
    /\ ~Ended(p)
    /\ Goto(p, Exit(proc[p], 1))
    /\ UNCHANGED <<jobs, articles, now, store_up, seen, call, hist>>

NextRestart ==
    \/ Concurrent(1) \/ Crash(1) \/ Restart(1)
    \/ \E u \in {PageA, PageB} : Discover(u)

SpecRestart == InitRestart /\ [][NextRestart]_vars

\* job i is running and no process is working on it: the attempt that set it
\* running was interrupted
Stuck(i) == jobs[i].status = "running" /\ \A p \in DOMAIN proc : proc[p].job.id # i

\* C33: a job left running by a crashed or interrupted attempt is not fetched,
\* claimed, reset or failed afterwards: its row stays as it is, no batch holds
\* it, and discovery inserts no job for its URL.
C33_StuckRunning ==
    [][\A i \in DOMAIN jobs :
         Stuck(i) =>
            /\ jobs'[i] = jobs[i]
            /\ \A p \in DOMAIN proc :
                  /\ proc'[p].job.id # i
                  /\ \A k \in DOMAIN proc'[p].batch : proc'[p].batch[k].id # i
            /\ \A j \in (DOMAIN jobs') \ (DOMAIN jobs) : jobs'[j].url # jobs[i].url]_vars

\* job 1 was left running; process_jobs.py was started again and the run ended
\* normally; the other job was completed
C33_Witness ==
    /\ Len(jobs) = 2
    /\ Stuck(1)
    /\ hist[1].statuses = <<"pending", "running">>
    /\ jobs[2].status = "completed"
    /\ proc[1].pc = "exit0"

----------------------------------------------------------------------------
(* SpecCreated: one run of process_jobs.py on a store that fails and returns
   at any time, whose jobs are all created by _save_discovered_url *)

\* the steps of a run on single-URL jobs without job limit
Run(p) ==
    \/ Connect(p) \/ Poll(p) \/ EndBatch(p) \/ Claim(p)
    \/ CrawlUrl(p) \/ CrawlUrlFallback(p) \/ Save(p) \/ Complete(p)
    \/ HandlerIncrement(p) \/ HandlerDecide(p)

NextCreated ==
    \/ Run(1) \/ StoreDown \/ StoreUp
    \/ \E u \in {PageA, PageB} : Discover(u)

SpecCreated == InitRestart /\ [][NextCreated]_vars

\* the jobs of URL u that are pending or running
ActiveJobs(u) ==
    {i \in DOMAIN jobs : jobs[i].url = u /\ jobs[i].status \in {"pending", "running"}}

\* C39: when every job is created by _save_discovered_url on one connection,
\* at most one job of a URL is pending or running at any time, and a URL whose
\* jobs are all completed or failed gets a new pending job when it is
\* discovered again.
C39_OneActivePerUrl ==
    /\ [](\A i \in DOMAIN jobs : Cardinality(ActiveJobs(jobs[i].url)) <= 1)
    /\ [][\A u \in {PageA, PageB} :
            (Discover(u) /\ ActiveJobs(u) = {}) =>
               /\ Len(jobs') = Len(jobs) + 1
               /\ jobs'[Len(jobs')].url = u
               /\ jobs'[Len(jobs')].status = "pending"]_vars


====
